---- MODULE Spec2Model ----
(***************************************************************************)
(* The time-stepped simulators of python/3d_visualization:                 *)
(*   birthday_station.simulate, two_balls_bounce.simulate_motion and       *)
(*   two_balls_cross.simulate_motion.                                      *)
(*                                                                         *)
(* Numbers.  The code computes in IEEE-754 binary64 (Python float, numpy   *)
(* float64): every +, * and / is the exact result rounded to the nearest   *)
(* representable value, ties to even.  The model keeps that rule and       *)
(* shortens the significand from 53 bits to Precision bits.  A model       *)
(* number is an integer count of the smallest representable step, so the   *)
(* representable values are the integers with at most Precision            *)
(* significant bits.  Overflow to infinity is out of reach of the inputs   *)
(* chosen; 0/0 yields NaN as in numpy.  The two_balls simulators, which    *)
(* only add and multiply, are also run in a format of WidePrecision bits,  *)
(* in which the arithmetic of the explored inputs is exact.                *)
(***************************************************************************)
EXTENDS Integers, Sequences, FiniteSets, TLC

\* Significand width of the model's floating-point format (binary64: 53).
Precision == 3

\* Significand width of the format in which the explored inputs compute
\* without rounding.
WidePrecision == 24

\* The significand width of the run (sys.float_info.mant_dig).
VARIABLE mant_dig

Abs(n) == IF n < 0 THEN -n ELSE n

Sign(n) == IF n < 0 THEN -1 ELSE IF n > 0 THEN 1 ELSE 0

RECURSIVE Pow2(_)
Pow2(k) == IF k <= 0 THEN 1 ELSE 2 * Pow2(k - 1)

\* The step between neighbouring representable values near magnitude
\* num/den in a format of width bits: the least power of two q with
\* num/den < 2^width * q.
RECURSIVE QuantumAt(_, _, _, _)
QuantumAt(width, num, den, q) ==
    IF num < Pow2(width) * q * den THEN q
    ELSE QuantumAt(width, num, den, 2 * q)

Quantum(num, den, q) == QuantumAt(mant_dig, num, den, q)

\* Round the exact rational num/den (den > 0) to the nearest value
\* representable in width bits, ties to the even significand.
RoundRatAt(width, num, den) ==
    LET a    == Abs(num)
        q    == QuantumAt(width, a, den, 1)
        unit == q * den
        m    == a \div unit
        rem  == a - m * unit
        up   == 2 * rem > unit \/ (2 * rem = unit /\ m % 2 = 1)
    IN  Sign(num) * q * (IF up THEN m + 1 ELSE m)

RoundRat(num, den) == RoundRatAt(mant_dig, num, den)

\* Rounding of an integer, of a square root and of a quotient, tabulated
\* for the format of Precision bits over the magnitudes the explored
\* inputs produce, and computed directly beyond them and in the wide
\* format.
TableMax == 128

DivisorMax == 16

RoundTable == [n \in -TableMax..TableMax |-> RoundRatAt(Precision, n, 1)]

\* The least magnitude that needs more than width bits.
RangeTable == [width \in {Precision, WidePrecision} |-> Pow2(width)]

\* An integer below 2^mant_dig is representable and rounds to itself.
Round(n) ==
    IF mant_dig = Precision /\ n \in DOMAIN RoundTable THEN RoundTable[n]
    ELSE IF Abs(n) < RangeTable[mant_dig] THEN n
    ELSE RoundRat(n, 1)

\* Floor of the square root of s >= 0.
RECURSIVE ISqrtFrom(_, _)
ISqrtFrom(s, r) == IF (r + 1) * (r + 1) > s THEN r ELSE ISqrtFrom(s, r + 1)

ISqrt(s) == ISqrtFrom(s, 0)

\* Round sqrt(s) to the nearest value representable in width bits, ties
\* to even.
RoundSqrtAt(width, s) ==
    LET r0 == ISqrt(s)
        q  == QuantumAt(width, r0, 1, 1)
        m  == ISqrt(s \div (q * q))
        lo == (2 * m + 1) * (2 * m + 1) * q * q
        up == 4 * s > lo \/ (4 * s = lo /\ m % 2 = 1)
    IN  q * (IF up THEN m + 1 ELSE m)

RoundSqrtOf(s) == RoundSqrtAt(mant_dig, s)

RoundSqrtTable ==
    [s \in 0..(4 * TableMax) |-> RoundSqrtAt(Precision, s)]

RoundSqrt(s) ==
    IF mant_dig = Precision /\ s \in DOMAIN RoundSqrtTable
    THEN RoundSqrtTable[s] ELSE RoundSqrtOf(s)

QuotientTable ==
    [num \in -TableMax..TableMax, den \in 1..DivisorMax |->
        RoundRatAt(Precision, num, den)]

\* Round num/den for den > 0.
RoundQuotient(num, den) ==
    IF mant_dig = Precision /\ <<num, den>> \in DOMAIN QuotientTable
    THEN QuotientTable[num, den] ELSE RoundRat(num, den)

FAdd(a, b) == Round(a + b)
FMul(a, b) == Round(a * b)


(***************************************************************************)
(* Values of birthday_station.simulate: a float is a finite number, NaN    *)
(* or an infinity.  The two_balls simulators never divide and hold plain   *)
(* numbers.                                                                *)
(***************************************************************************)
Num(n) == [kind |-> "num", val |-> n]

NaN == [kind |-> "nan", val |-> 0]

Inf(s) == [kind |-> "inf", val |-> s]

IsNum(c) == c.kind = "num"

\* a + b, a * b on floats (an operand that is not finite is not reached by
\* the simulators: the only division is followed by break).
CAdd(a, b) ==
    IF IsNum(a) /\ IsNum(b) THEN Num(FAdd(a.val, b.val)) ELSE NaN

CMul(a, b) ==
    IF IsNum(a) /\ IsNum(b) THEN Num(FMul(a.val, b.val)) ELSE NaN

\* a / b as numpy's float64 divides: no exception, 0/0 is NaN and x/0 is
\* an infinity.
CDiv(a, b) ==
    IF ~(IsNum(a) /\ IsNum(b)) THEN NaN
    ELSE IF b.val = 0 THEN (IF a.val = 0 THEN NaN ELSE Inf(Sign(a.val)))
    ELSE Num(RoundQuotient(a.val * Sign(b.val), Abs(b.val)))

\* np.hypot(a, b)
Hypot(a, b) ==
    IF IsNum(a) /\ IsNum(b)
    THEN Num(RoundSqrt(a.val * a.val + b.val * b.val)) ELSE NaN

\* a >= b on floats: false when either side is NaN.
CGe(a, b) == IsNum(a) /\ IsNum(b) /\ a.val >= b.val

(***************************************************************************)
(* numpy arrays of shape (number_of_balls, 3): a sequence of rows, a row   *)
(* a triple.  Arrays are objects: mem holds their contents by reference.   *)
(***************************************************************************)
\* row + row, row * scalar, elementwise and rounded.
RowAdd(r, s) == [k \in 1..3 |-> FAdd(r[k], s[k])]

RowScale(r, c) == [k \in 1..3 |-> FMul(r[k], c)]

\* Mutant of ArrayAdvance: the time step is left out of the product.
ArrayAdvanceUnscaled(ps, vs, dt) ==
    [b \in 1..Len(ps) |-> RowAdd(ps[b], vs[b])]

\* positions + velocities * time_step on whole arrays.
ArrayAdvance(ps, vs, dt) ==
    [b \in 1..Len(ps) |-> RowAdd(ps[b], RowScale(vs[b], dt))]

\* The references of the caller's two argument arrays.
InitialPositionsRef == 1

InitialVelocitiesRef == 2

\* The inputs explored.
MaxLen == 10

BodyChoices ==
    { [pos |-> <<-2, 0, 0>>, vel |-> <<1, 1, 0>>],
      [pos |-> <<2, 1, 0>>,  vel |-> <<1, 0, 0>>],
      [pos |-> <<0, 0, 0>>,  vel |-> <<0, 0, 1>>],
      [pos |-> <<-1, 0, 0>>, vel |-> <<-2, 0, 0>>],
      [pos |-> <<-1, 0, 0>>, vel |-> <<4, 0, 0>>] }

BodyLists ==
    {<<>>} \cup {<<a>> : a \in BodyChoices}
           \cup {<<a, b>> : a \in BodyChoices, b \in BodyChoices}

TimeSteps == {-1, 0, 1, 3}

StopTimes == {-1, 0, 2, 8}

WallPositions == {0}

InnerRadii == {0, 4, 8, 10}

ReleaseHeights == {0, 2, 4}

InitialVelocities == {<<0, 0>>, <<1, 0>>, <<0, 1>>, <<2, 1>>}

MaxStepsChoices == {0, 1, 6}

AngularSpeeds == {1}

StationArgs ==
    [angular_speed : AngularSpeeds, inner_radius : InnerRadii,
     release_height : ReleaseHeights, initial_velocity : InitialVelocities,
     time_step : TimeSteps, max_steps : MaxStepsChoices]

BounceArgs ==
    [wall_x_position : WallPositions, time_step : TimeSteps,
     stop_time : StopTimes]

CrossArgs == [time_step : TimeSteps, stop_time : StopTimes]

\* The call of two_balls_bounce.main() (Scenario B of the specification),
\* in units of 0.01: positions (-10, 0, 0) and (-8, 1.5, 0), velocities
\* (25, 0, 0) and (18, 0, 0), wall at 0, time_step 0.01, stop_time 1.0.
MainPositions == << <<-1000, 0, 0>>, <<-800, 150, 0>> >>

MainVelocities == << <<25, 0, 0>>, <<18, 0, 0>> >>

MainArgs == [wall_x_position |-> 0, time_step |-> 1, stop_time |-> 100]

VARIABLES
    prog,                \* which simulator is called
    args,                \* its scalar arguments
    given,               \* the contents of the argument arrays at the call
    call,                \* 1: first call, 2: second call on the same arguments
    pc,                  \* position in the function body
    outcome,             \* "running", "returned"
    mem,                 \* the array objects, by reference
    positions,           \* reference of the working positions array
    velocities,          \* reference of the working velocities array
    positions_over_time, \* list of references
    index,               \* the for-loop index of two_balls_bounce
    current_time,
    velocity_log,        \* history: contents of velocities at each append
    current_x, current_y,
    x_positions, y_positions, times,
    iteration,           \* number of passes of simulate's for loop begun
    result,              \* the value returned
    first_result,        \* the value the first call returned
    frames,              \* the figure builder's list of frames
    frame_index,         \* its loop index
    figure,              \* the figure it returns
    cross_pc,            \* two_balls_cross.simulate_motion run beside the
    cross_positions,     \* bounce call on the same argument arrays: its
    cross_velocities,    \* position in the body and its locals ("idle"
    cross_time,          \* when it is not run)
    cross_over_time,
    cross_mem,           \* the array objects the cross call created
    direction_vector,    \* locals of birthday_vector.arrow_3d
    vector_length,
    shaft_end_position

vars == <<mant_dig, prog, args, given, call, pc, outcome, mem, positions, velocities,
          positions_over_time, index, current_time, velocity_log,
          current_x, current_y, x_positions, y_positions, times, iteration,
          result, first_result, frames, frame_index, figure, cross_pc,
          cross_positions, cross_velocities, cross_time, cross_over_time,
          cross_mem, direction_vector, vector_length, shaft_end_position>>

figureVars == <<frames, frame_index, figure>>

arrowVars == <<direction_vector, vector_length, shaft_end_position>>

besideVars == <<cross_pc, cross_positions, cross_velocities, cross_time,
                cross_over_time, cross_mem>>

stationVars == <<current_x, current_y, x_positions, y_positions, times,
                 iteration>>

motionVars == <<mem, positions, velocities, positions_over_time, index,
                velocity_log>>

PositionsOf(bodies) == [b \in 1..Len(bodies) |-> bodies[b].pos]

VelocitiesOf(bodies) == [b \in 1..Len(bodies) |-> bodies[b].vel]

\* Mutant of WorkingCopy and of Snapshot: no copy is made, the name is
\* bound to the object itself.
SameObject(m, ref) == [mem |-> m, ref |-> ref]

\* array.copy(): a new object with the same contents.
CopyOf(m, ref) == [mem |-> Append(m, m[ref]), ref |-> Len(m) + 1]

\* The contents of a list of array references.
Contents(m, refs) == [k \in 1..Len(refs) |-> m[refs[k]]]

(***************************************************************************)
(* The state at the call: the caller holds the argument arrays, nothing    *)
(* of the callee exists yet.                                               *)
(***************************************************************************)
NoFrame ==
    /\ positions = 0
    /\ velocities = 0
    /\ positions_over_time = <<>>
    /\ index = 0
    /\ current_time = 0
    /\ velocity_log = <<>>
    /\ current_x = Num(0)
    /\ current_y = Num(0)
    /\ x_positions = <<>>
    /\ y_positions = <<>>
    /\ times = <<>>
    /\ iteration = 0
    /\ result = <<>>
    /\ direction_vector = <<>>
    /\ vector_length = 0
    /\ shaft_end_position = <<>>

Init ==
    /\ \/ /\ prog = "station"
          /\ args \in StationArgs
          /\ given = [positions |-> <<>>, velocities |-> <<>>]
          /\ mem = <<>>
          /\ mant_dig = Precision
       \/ /\ prog = "bounce"
          /\ args \in BounceArgs
          /\ \E bodies \in BodyLists :
                given = [positions  |-> PositionsOf(bodies),
                         velocities |-> VelocitiesOf(bodies)]
          /\ mem = <<given.positions, given.velocities>>
          /\ mant_dig \in {Precision, WidePrecision}
       \/ /\ prog = "bounce"
          /\ args = MainArgs
          /\ given = [positions |-> MainPositions,
                      velocities |-> MainVelocities]
          /\ mem = <<given.positions, given.velocities>>
          /\ mant_dig = WidePrecision
       \/ /\ prog = "cross"
          /\ args \in CrossArgs
          /\ \E bodies \in BodyLists :
                given = [positions  |-> PositionsOf(bodies),
                         velocities |-> VelocitiesOf(bodies)]
          /\ mem = <<given.positions, given.velocities>>
          /\ mant_dig \in {Precision, WidePrecision}
    /\ call = 1
    /\ pc = "entry"
    /\ outcome = "running"
    /\ first_result = <<>>
    /\ NoFrame
    /\ frames = <<>>
    /\ frame_index = 0
    /\ figure = <<>>
    /\ cross_pc = "idle"
    /\ cross_positions = 0
    /\ cross_velocities = 0
    /\ cross_time = 0
    /\ cross_over_time = <<>>
    /\ cross_mem = <<>>

(***************************************************************************)
(* birthday_station.simulate (time_step given; the default taken when it   *)
(* is None is not modelled).                                               *)
(***************************************************************************)
\* Mutant of InitialY: the release height is left out, the ball starts on
\* the rim.
InitialYOnRim(a) == Num(-a.inner_radius)

\* initial_y_position = -inner_radius + release_height
InitialY(a) == CAdd(Num(-a.inner_radius), Num(a.release_height))

StationEnter ==
    /\ prog = "station" /\ pc = "entry"
    /\ x_positions' = <<Num(0)>>
    /\ y_positions' = <<InitialY(args)>>
    /\ times' = <<0>>
    /\ current_x' = Num(0)
    /\ current_y' = InitialY(args)
    /\ current_time' = 0
    /\ iteration' = 0
    /\ pc' = "loop"
    /\ UNCHANGED <<arrowVars, besideVars, figureVars, mant_dig, prog, args, given, call, outcome, motionVars, result,
                   first_result>>

\* current_x += velocity_x * time_step (either coordinate)
Advance(coordinate, velocity, dt) ==
    CAdd(coordinate, CMul(Num(velocity), Num(dt)))

\* Mutant of Clamp: the coordinate is not rescaled.
Unclamped(inner_radius, coordinate, radius) == coordinate

\* inner_radius * current_x / radius (either coordinate)
Clamp(inner_radius, coordinate, radius) ==
    CDiv(CMul(Num(inner_radius), coordinate), radius)

\* Mutant of NextTime: the time is not advanced.
SkippedTime(t, dt) == t

\* current_time += time_step
NextTime(t, dt) == FAdd(t, dt)

\* One pass of the for loop.
StationStep ==
    /\ prog = "station" /\ pc = "loop"
    /\ iteration < args.max_steps
    /\ LET nx == Advance(current_x, args.initial_velocity[1], args.time_step)
           ny == Advance(current_y, args.initial_velocity[2], args.time_step)
           nt == NextTime(current_time, args.time_step)
           radius == Hypot(nx, ny)
       IN  /\ current_time' = nt
           /\ times' = Append(times, nt)
           /\ iteration' = iteration + 1
           /\ IF CGe(radius, Num(args.inner_radius))
              THEN /\ current_x' = Clamp(args.inner_radius, nx, radius)
                   /\ current_y' = Clamp(args.inner_radius, ny, radius)
                   /\ pc' = "break"
              ELSE /\ current_x' = nx
                   /\ current_y' = ny
                   /\ pc' = "loop"
           /\ x_positions' = Append(x_positions, current_x')
           /\ y_positions' = Append(y_positions, current_y')
    /\ UNCHANGED <<arrowVars, besideVars, figureVars, mant_dig, prog, args, given, call, outcome, motionVars, result,
                   first_result>>

\* rotate_xy: the rotated coordinates are kept as terms over the inputs
\* (cos and sin are not evaluated); one element per input element.
RotateXY(xs, ys, angles) ==
    [x |-> [k \in 1..Len(xs) |->
               [term |-> "cos*x-sin*y", x |-> xs[k], y |-> ys[k],
                angle |-> angles[k]]],
     y |-> [k \in 1..Len(xs) |->
               [term |-> "sin*x+cos*y", x |-> xs[k], y |-> ys[k],
                angle |-> angles[k]]]]

\* After the loop: the arrays, the rotating frame and the return value.
StationReturn ==
    /\ prog = "station"
    /\ IF pc = "loop" THEN iteration >= args.max_steps ELSE pc = "break"
    /\ LET rotating == RotateXY(x_positions, y_positions,
                         [k \in 1..Len(times) |->
                             FMul(-args.angular_speed, times[k])])
       IN  result' = [time |-> times, x_inertial |-> x_positions,
                      y_inertial |-> y_positions,
                      x_rotating |-> rotating.x, y_rotating |-> rotating.y]
    /\ pc' = "done"
    /\ outcome' = "returned"
    /\ UNCHANGED <<arrowVars, besideVars, figureVars, mant_dig, prog, args, given, call, motionVars, current_time,
                   stationVars, first_result>>

(***************************************************************************)
(* two_balls_bounce.simulate_motion                                        *)
(***************************************************************************)
\* positions = initial_positions.copy(); velocities likewise.
WorkingCopy(m, ref) == CopyOf(m, ref)

\* positions_over_time.append(positions.copy()): the object appended.
Snapshot(m, ref) == CopyOf(m, ref)

\* The prologue shared by both simulate_motion functions.
EnterMotion ==
    LET p == WorkingCopy(mem, InitialPositionsRef)
        v == WorkingCopy(p.mem, InitialVelocitiesRef)
    IN  /\ positions_over_time' = <<>>
        /\ positions' = p.ref
        /\ velocities' = v.ref
        /\ mem' = v.mem
        /\ current_time' = 0
        /\ index' = 0
        /\ velocity_log' = <<>>
        /\ pc' = "while"
        /\ UNCHANGED <<arrowVars, besideVars, figureVars, mant_dig, prog, args, given, call, outcome, stationVars,
                       result, first_result>>

BounceEnter == prog = "bounce" /\ pc = "entry" /\ EnterMotion

\* The while loop is followed for MaxLen passes more than it takes in
\* exact arithmetic (where a loop that does not end takes none).
PassBound ==
    MaxLen + (IF args.time_step > 0 /\ args.stop_time >= 0
              THEN args.stop_time \div args.time_step ELSE 0)

\* while current_time <= stop_time: append a copy of positions.
BounceAppend ==
    /\ prog = "bounce" /\ pc = "while"
    /\ current_time <= args.stop_time
    /\ Len(positions_over_time) < PassBound
    /\ LET c == Snapshot(mem, positions)
       IN  /\ mem' = c.mem
           /\ positions_over_time' = Append(positions_over_time, c.ref)
    /\ velocity_log' = Append(velocity_log, mem[velocities])
    /\ index' = 0
    /\ pc' = "for"
    /\ UNCHANGED <<arrowVars, besideVars, figureVars, mant_dig, prog, args, given, call, outcome, positions, velocities,
                   current_time, stationVars, result, first_result>>

\* Mutant of Reflect: a body exactly at the wall is not turned.
ReflectStrict(position, velocity, wall_x_position) ==
    IF position[1] > wall_x_position
    THEN [velocity EXCEPT ![1] = FMul(velocity[1], -1)]
    ELSE velocity

\* Mutant of Reflect: the comparison is turned around.
ReflectBelow(position, velocity, wall_x_position) ==
    IF position[1] <= wall_x_position
    THEN [velocity EXCEPT ![1] = FMul(velocity[1], -1)]
    ELSE velocity

\* Mutant of Reflect: the whole velocity row is negated.
ReflectRow(position, velocity, wall_x_position) ==
    IF position[1] >= wall_x_position
    THEN RowScale(velocity, -1)
    ELSE velocity

\* if positions[index, 0] >= wall_x_position: velocities[index, 0] *= -1.0
\* The velocity row of one body after the test.
Reflect(position, velocity, wall_x_position) ==
    IF position[1] >= wall_x_position
    THEN [velocity EXCEPT ![1] = FMul(velocity[1], -1)]
    ELSE velocity

\* Mutant of BounceBody: a body found at or beyond the wall is put back
\* on the wall before it is advanced.
BounceBodyClamped ==
    /\ prog = "bounce" /\ pc = "for"
    /\ index < Len(mem[positions])
    /\ LET b == index + 1
           v == Reflect(mem[positions][b], mem[velocities][b],
                        args.wall_x_position)
           from == IF mem[positions][b][1] >= args.wall_x_position
                   THEN [mem[positions][b] EXCEPT
                            ![1] = args.wall_x_position]
                   ELSE mem[positions][b]
           p == RowAdd(from, RowScale(v, args.time_step))
           m == [mem EXCEPT ![velocities][b] = v]
       IN  mem' = [m EXCEPT ![positions][b] = p]
    /\ index' = index + 1
    /\ UNCHANGED <<arrowVars, besideVars, figureVars, mant_dig, prog, args, given, call, pc, outcome,
                   positions, velocities, positions_over_time,
                   current_time, velocity_log, stationVars, result,
                   first_result>>

\* One pass of the for loop: the wall test and the in-place advance of
\* body index (rows are numbered from 1 in the model).
BounceBody ==
    /\ prog = "bounce" /\ pc = "for"
    /\ index < Len(mem[positions])
    /\ LET b == index + 1
           v == Reflect(mem[positions][b], mem[velocities][b],
                        args.wall_x_position)
           p == RowAdd(mem[positions][b], RowScale(v, args.time_step))
           m == [mem EXCEPT ![velocities][b] = v]
       IN  mem' = [m EXCEPT ![positions][b] = p]
    /\ index' = index + 1
    /\ UNCHANGED <<arrowVars, besideVars, figureVars, mant_dig, prog, args, given, call, pc, outcome, positions,
                   velocities, positions_over_time, current_time,
                   velocity_log, stationVars, result, first_result>>

\* Mutant of BounceAdvanceTime: the time is not advanced.
BounceKeepTime ==
    /\ prog = "bounce" /\ pc = "for"
    /\ index >= Len(mem[positions])
    /\ pc' = "while"
    /\ UNCHANGED <<arrowVars, besideVars, figureVars, mant_dig, prog, args, given, call, outcome, motionVars,
                   current_time, stationVars, result, first_result>>

\* current_time += time_step, after the for loop.
BounceAdvanceTime ==
    /\ prog = "bounce" /\ pc = "for"
    /\ index >= Len(mem[positions])
    /\ current_time' = FAdd(current_time, args.time_step)
    /\ pc' = "while"
    /\ UNCHANGED <<arrowVars, besideVars, figureVars, mant_dig, prog, args, given, call, outcome, motionVars,
                   stationVars, result, first_result>>

\* return positions_over_time
ReturnMotion ==
    /\ pc = "while"
    /\ ~(current_time <= args.stop_time)
    /\ result' = positions_over_time
    /\ pc' = "done"
    /\ outcome' = "returned"
    /\ UNCHANGED <<arrowVars, besideVars, figureVars, mant_dig, prog, args, given, call, motionVars, current_time,
                   stationVars, first_result>>

BounceReturn == prog = "bounce" /\ ReturnMotion

(***************************************************************************)
(* two_balls_cross.simulate_motion                                         *)
(***************************************************************************)
CrossEnter == prog = "cross" /\ pc = "entry" /\ EnterMotion

\* One pass of the while loop: append a copy, bind positions to a new
\* array, advance the time.
CrossStep ==
    /\ prog = "cross" /\ pc = "while"
    /\ current_time <= args.stop_time
    /\ Len(positions_over_time) < PassBound
    /\ LET c    == Snapshot(mem, positions)
           next == ArrayAdvance(mem[positions], mem[velocities],
                                args.time_step)
       IN  /\ positions_over_time' = Append(positions_over_time, c.ref)
           /\ mem' = Append(c.mem, next)
           /\ positions' = Len(c.mem) + 1
    /\ velocity_log' = Append(velocity_log, mem[velocities])
    /\ current_time' = FAdd(current_time, args.time_step)
    /\ UNCHANGED <<arrowVars, besideVars, figureVars, mant_dig, prog, args, given, call, pc, outcome, velocities, index,
                   stationVars, result, first_result>>

CrossReturn == prog = "cross" /\ ReturnMotion

(***************************************************************************)
(* The caller calls the same function once more with the same arguments    *)
(* (the same array objects); the frame of the first call is gone, the      *)
(* value it returned is kept.                                              *)
(***************************************************************************)
Returned == IF prog = "station" THEN result ELSE Contents(mem, result)

CallAgain ==
    /\ pc = "done" /\ call = 1
    /\ first_result' = Returned
    /\ call' = 2
    /\ pc' = "entry"
    /\ outcome' = "running"
    /\ positions' = 0
    /\ velocities' = 0
    /\ positions_over_time' = <<>>
    /\ index' = 0
    /\ current_time' = 0
    /\ velocity_log' = <<>>
    /\ current_x' = Num(0)
    /\ current_y' = Num(0)
    /\ x_positions' = <<>>
    /\ y_positions' = <<>>
    /\ times' = <<>>
    /\ iteration' = 0
    /\ result' = <<>>
    /\ UNCHANGED <<arrowVars, besideVars, figureVars, mant_dig, prog, args, given, mem>>

(***************************************************************************)
(* The figure builders, run by the caller on the trajectory returned:      *)
(* birthday_station.build_figure on the dictionary of simulate, the two    *)
(* build_animation_figure on the list of simulate_motion.  Of a trace the  *)
(* model keeps what it is drawn from, not the mesh.                        *)
(***************************************************************************)
BuildEnter ==
    /\ pc = "done" /\ call = 2
    /\ frames' = <<>>
    /\ frame_index' = 0
    /\ pc' = "frames"
    /\ UNCHANGED <<arrowVars, besideVars, mant_dig, prog, args, given, call, outcome, motionVars,
                   current_time, stationVars, result, first_result, figure>>

\* Mutant of Trail: the slice stops one short.
TrailShort(coordinates, k) == SubSeq(coordinates, 1, k)

\* x_inertial[: frame_index + 1]
Trail(coordinates, k) == SubSeq(coordinates, 1, k + 1)

\* The frame_data of build_figure for frame_index k (arrays are indexed
\* from 1 in the model): the ring turned by angular_speed * times[k], the
\* ball markers and the trails of both panels.
StationFrameData(k) ==
    [ring_angle |-> FMul(args.angular_speed, result.time[k + 1]),
     ball  |-> <<result.x_inertial[k + 1], result.y_inertial[k + 1]>>,
     trail |-> [x |-> Trail(result.x_inertial, k),
                y |-> Trail(result.y_inertial, k)],
     ball_rotating  |-> <<result.x_rotating[k + 1],
                          result.y_rotating[k + 1]>>,
     trail_rotating |-> [x |-> Trail(result.x_rotating, k),
                         y |-> Trail(result.y_rotating, k)]]

\* One pass of for frame_index in range(len(times)).
StationFrame ==
    /\ prog = "station" /\ pc = "frames"
    /\ frame_index < Len(result.time)
    /\ frames' = Append(frames, [name |-> ToString(frame_index),
                                 data |-> StationFrameData(frame_index)])
    /\ frame_index' = frame_index + 1
    /\ UNCHANGED <<arrowVars, besideVars, mant_dig, prog, args, given, call, pc, outcome,
                   motionVars, current_time, stationVars, result,
                   first_result, figure>>

\* fig.frames = frames, and the figure is returned.
StationFigure ==
    /\ prog = "station" /\ pc = "frames"
    /\ frame_index >= Len(result.time)
    /\ figure' = [frames |-> frames]
    /\ pc' = "figure"
    /\ UNCHANGED <<arrowVars, besideVars, mant_dig, prog, args, given, call, outcome, motionVars,
                   current_time, stationVars, result, first_result, frames,
                   frame_index>>

\* go.Surface over generate_sphere_mesh(center): one trace per row.
Sphere(center) == [surface |-> "sphere", center |-> center]

\* One pass of for frame_index, positions in
\* enumerate(positions_over_time).
MotionFrame ==
    /\ pc = "frames"
    /\ frame_index < Len(result)
    /\ LET state == mem[result[frame_index + 1]]
       IN  frames' = Append(frames,
                        [name |-> ToString(frame_index),
                         data |-> [b \in 1..Len(state) |->
                                      Sphere(state[b])]])
    /\ frame_index' = frame_index + 1
    /\ UNCHANGED <<arrowVars, besideVars, mant_dig, prog, args, given, call, pc, outcome,
                   motionVars, current_time, stationVars, result,
                   first_result, figure>>

\* initial_traces = frames[0].data, an IndexError on an empty list; then
\* go.Figure(data=[*initial_traces, ...], frames=frames).
MotionFigure ==
    /\ pc = "frames"
    /\ frame_index >= Len(result)
    /\ IF Len(frames) = 0
       THEN /\ outcome' = "IndexError"
            /\ figure' = figure
       ELSE /\ outcome' = outcome
            /\ figure' = [data |-> frames[1].data, frames |-> frames]
    /\ pc' = "figure"
    /\ UNCHANGED <<arrowVars, besideVars, mant_dig, prog, args, given, call, motionVars,
                   current_time, stationVars, result, first_result, frames,
                   frame_index>>

BounceFrame == prog = "bounce" /\ MotionFrame

BounceFigure == prog = "bounce" /\ MotionFigure

CrossFrame == prog = "cross" /\ MotionFrame

CrossFigure == prog = "cross" /\ MotionFigure

Next ==
    \/ StationEnter
    \/ StationStep
    \/ StationReturn
    \/ BounceEnter
    \/ BounceAppend
    \/ BounceBody
    \/ BounceAdvanceTime
    \/ BounceReturn
    \/ CrossEnter
    \/ CrossStep
    \/ CrossReturn
    \/ CallAgain
    \/ BuildEnter
    \/ StationFrame
    \/ StationFigure
    \/ BounceFrame
    \/ BounceFigure
    \/ CrossFrame
    \/ CrossFigure

Spec == Init /\ [][Next]_vars

\* The interpreter runs the function to its end: a step that can be taken
\* is taken.
SpecFair == Spec /\ WF_vars(Next)

(***************************************************************************)
(* The two simulate_motion functions run side by side on the same          *)
(* initial_positions, initial_velocities, time_step and stop_time: the     *)
(* bounce call as above, the cross call in locals of its own, their steps  *)
(* interleaved in any order.                                               *)
(***************************************************************************)
InitBeside ==
    /\ prog = "bounce"
    /\ args \in BounceArgs
    /\ \E bodies \in BodyLists :
          given = [positions  |-> PositionsOf(bodies),
                   velocities |-> VelocitiesOf(bodies)]
    /\ mem = <<given.positions, given.velocities>>
    /\ mant_dig \in {Precision, WidePrecision}
    /\ call = 1
    /\ pc = "entry"
    /\ outcome = "running"
    /\ first_result = <<>>
    /\ NoFrame
    /\ frames = <<>>
    /\ frame_index = 0
    /\ figure = <<>>
    /\ cross_pc = "entry"
    /\ cross_positions = 0
    /\ cross_velocities = 0
    /\ cross_time = 0
    /\ cross_over_time = <<>>
    /\ cross_mem = <<>>

\* What a step of the cross call leaves alone.
bounceFrame == <<arrowVars, figureVars, mant_dig, prog, args, given, call, pc, outcome,
                 motionVars, current_time, stationVars, result,
                 first_result>>

\* The prologue of two_balls_cross.simulate_motion: the copies of the
\* caller's arrays are the first objects of the call.
BesideEnter ==
    /\ cross_pc = "entry"
    /\ LET p == WorkingCopy(mem, InitialPositionsRef)
           v == WorkingCopy(mem, InitialVelocitiesRef)
       IN  cross_mem' = <<p.mem[p.ref], v.mem[v.ref]>>
    /\ cross_positions' = 1
    /\ cross_velocities' = 2
    /\ cross_over_time' = <<>>
    /\ cross_time' = 0
    /\ cross_pc' = "while"
    /\ UNCHANGED bounceFrame

\* One pass of its while loop.
BesideStep ==
    /\ cross_pc = "while"
    /\ cross_time <= args.stop_time
    /\ Len(cross_over_time) < PassBound
    /\ LET c    == Snapshot(cross_mem, cross_positions)
           next == ArrayAdvance(cross_mem[cross_positions],
                                cross_mem[cross_velocities], args.time_step)
       IN  /\ cross_over_time' = Append(cross_over_time, c.ref)
           /\ cross_mem' = Append(c.mem, next)
           /\ cross_positions' = Len(c.mem) + 1
    /\ cross_time' = FAdd(cross_time, args.time_step)
    /\ UNCHANGED <<bounceFrame, cross_pc, cross_velocities>>

\* return positions_over_time
BesideReturn ==
    /\ cross_pc = "while"
    /\ ~(cross_time <= args.stop_time)
    /\ cross_pc' = "done"
    /\ UNCHANGED <<bounceFrame, cross_positions, cross_velocities,
                   cross_time, cross_over_time, cross_mem>>

NextBeside ==
    \/ BounceEnter
    \/ BounceAppend
    \/ BounceBody
    \/ BounceAdvanceTime
    \/ BounceReturn
    \/ BesideEnter
    \/ BesideStep
    \/ BesideReturn

SpecBeside == InitBeside /\ [][NextBeside]_vars

(***************************************************************************)
(* birthday_vector.arrow_3d.  Its arguments are fractions, so here a model *)
(* number counts steps of 2^-FractionBits: One is the float 1.0, sums and  *)
(* differences round as before, a product is divided by One and a quotient *)
(* multiplied by One before rounding.  A result below half a step rounds   *)
(* to zero, as a binary64 result below half the least subnormal does.      *)
(***************************************************************************)
FractionBits == 2

One == Pow2(FractionBits)

\* a * b and a / b (b > 0) on numbers counted in steps of 1/One.
ScaledMul(a, b) == RoundRat(a * b, One)

ScaledDiv(a, b) == RoundRat(a * One, b)

\* array - array, scalar * array on arrays of shape (3,).
VectorSub(r, s) == [k \in 1..3 |-> FAdd(r[k], -s[k])]

VectorScale(c, r) == [k \in 1..3 |-> ScaledMul(c, r[k])]

\* np.linalg.norm of a real vector: sqrt(x.dot(x)), each product and each
\* partial sum rounded.
Norm(d) ==
    LET dot == FAdd(FAdd(ScaledMul(d[1], d[1]), ScaledMul(d[2], d[2])),
                    ScaledMul(d[3], d[3]))
    IN  RoundSqrtOf(dot * One)

\* The points and head fractions explored.
ArrowStarts == { <<0, 0, 0>>, <<4, 0, 0>>, <<-4, 8, 0>> }

ArrowEnds ==
    { <<0, 0, 0>>, <<1, 0, 0>>, <<4, 0, 0>>, <<12, 16, 0>>, <<8, 24, 0>>,
      <<4, 4, 4>>, <<-4, 8, 0>> }

HeadFractions == {0, 1, 2, 3, 6}

ArrowArgs ==
    [position_start : ArrowStarts, position_end : ArrowEnds,
     head_fraction : HeadFractions]

InitArrow ==
    /\ prog = "arrow"
    /\ args \in ArrowArgs
    /\ mant_dig \in {Precision, WidePrecision}
    /\ given = <<>>
    /\ mem = <<>>
    /\ call = 1
    /\ pc = "entry"
    /\ outcome = "running"
    /\ first_result = <<>>
    /\ NoFrame
    /\ frames = <<>>
    /\ frame_index = 0
    /\ figure = <<>>
    /\ cross_pc = "idle"
    /\ cross_positions = 0
    /\ cross_velocities = 0
    /\ cross_time = 0
    /\ cross_over_time = <<>>
    /\ cross_mem = <<>>

\* What arrow_3d never touches.
arrowFrame == <<besideVars, figureVars, motionVars, stationVars, mant_dig,
                prog, args, given, call, current_time, first_result>>

\* direction_vector and vector_length.
ArrowEnter ==
    /\ prog = "arrow"
    /\ pc = "entry"
    /\ LET d == VectorSub(args.position_end, args.position_start)
       IN  /\ direction_vector' = d
           /\ vector_length' = Norm(d)
    /\ pc' = "length"
    /\ UNCHANGED <<arrowFrame, outcome, result, shaft_end_position>>

\* if vector_length == 0: raise ValueError
ArrowRaise ==
    /\ prog = "arrow"
    /\ pc = "length"
    /\ vector_length = 0
    /\ outcome' = "ValueError"
    /\ pc' = "done"
    /\ UNCHANGED <<arrowFrame, arrowVars, result>>

\* Mutant of ShaftEndPosition: the head is not taken off the shaft.
ShaftEndAtTip(position_end, head_fraction, length, direction) ==
    position_end

\* position_end - (head_length / vector_length) * direction_vector
ShaftEndPosition(position_end, head_fraction, length, direction) ==
    LET head_length == ScaledMul(head_fraction, length)
    IN  VectorSub(position_end,
                  VectorScale(ScaledDiv(head_length, length), direction))

ArrowShaftEnd ==
    /\ prog = "arrow"
    /\ pc = "length"
    /\ vector_length # 0
    /\ shaft_end_position' =
           ShaftEndPosition(args.position_end, args.head_fraction,
                            vector_length, direction_vector)
    /\ pc' = "traces"
    /\ UNCHANGED <<arrowFrame, outcome, result, direction_vector,
                   vector_length>>

\* go.Scatter3d(x=[start, shaft end], ...) and go.Cone(x, y, z, u, v, w,
\* anchor="tail"), returned as a pair.
Shaft(from, to) ==
    [x |-> <<from[1], to[1]>>, y |-> <<from[2], to[2]>>,
     z |-> <<from[3], to[3]>>, mode |-> "lines"]

Cone(at, tip) ==
    [x |-> <<at[1]>>, y |-> <<at[2]>>, z |-> <<at[3]>>,
     u |-> <<FAdd(tip[1], -at[1])>>, v |-> <<FAdd(tip[2], -at[2])>>,
     w |-> <<FAdd(tip[3], -at[3])>>, anchor |-> "tail"]

ArrowReturn ==
    /\ prog = "arrow"
    /\ pc = "traces"
    /\ result' = << Shaft(args.position_start, shaft_end_position),
                    Cone(shaft_end_position, args.position_end) >>
    /\ outcome' = "returned"
    /\ pc' = "done"
    /\ UNCHANGED <<arrowFrame, arrowVars>>

NextArrow == ArrowEnter \/ ArrowRaise \/ ArrowShaftEnd \/ ArrowReturn

SpecArrow == InitArrow /\ [][NextArrow]_vars

(***************************************************************************)
(* Properties                                                              *)
(***************************************************************************)
Last(seq) == seq[Len(seq)]

\* C1 (as stated): in birthday_station.simulate the time recorded at index
\* i (counted from 0) is i * time_step, for every recorded index.
C1_TimeIsIndexTimesStep ==
    prog = "station" =>
        \A i \in 1..Len(times) : times[i] = FMul(i - 1, args.time_step)

\* C1 (amended): the three recorded lists grow together, the first time is
\* 0 and every later time is the floating-point sum of the time before it
\* and time_step, the clamped last entry included; it is i * time_step at
\* every index up to which those sums are exact.
C1_TimeIsAccumulatedStep ==
    prog = "station" =>
        /\ Len(times) = Len(x_positions)
        /\ Len(times) = Len(y_positions)
        /\ \A i \in 1..Len(times) :
              /\ i = 1 => times[i] = 0
              /\ i > 1 => times[i] = FAdd(times[i - 1], args.time_step)
              /\ (\A k \in 1..(i - 1) :
                     Round(k * args.time_step) = k * args.time_step)
                    => times[i] = (i - 1) * args.time_step

\* C1 witness: a run stopped at the boundary after several steps, whose
\* accumulated time has left i * time_step.
C1_Witness ==
    /\ prog = "station" /\ pc = "break"
    /\ Len(times) >= 3
    /\ args.time_step > 0
    /\ Last(times) # FMul(Len(times) - 1, args.time_step)

\* The float norm of a recorded position differs from radius by at most
\* one step of the format at radius.
OnCircle(x, y, radius) ==
    /\ IsNum(x) /\ IsNum(y)
    /\ Abs(Hypot(x, y).val - radius) <= Quantum(Abs(radius), 1, 1)

\* C2 (as stated, for a positive time_step): in birthday_station.simulate
\* a post-advance position at radial distance >= inner_radius is rescaled
\* onto the circle of radius inner_radius and recorded as the last entry;
\* every entry an advance produced before the last one lies strictly
\* inside the circle.
C2_StopClampsOntoBoundary ==
    (prog = "station" /\ args.time_step > 0) =>
        /\ pc = "break" =>
              OnCircle(Last(x_positions), Last(y_positions),
                       args.inner_radius)
        /\ \A i \in 2..(Len(x_positions) - 1) :
              ~CGe(Hypot(x_positions[i], y_positions[i]),
                   Num(args.inner_radius))
        /\ (pc = "loop" /\ Len(x_positions) >= 2) =>
              ~CGe(Hypot(Last(x_positions), Last(y_positions)),
                   Num(args.inner_radius))

SumSq(row) == row[1] * row[1] + row[2] * row[2] + row[3] * row[3]

\* C3 (as stated, for a positive time_step): in
\* two_balls_bounce.simulate_motion, for every body and every recorded step
\* i with x >= wall_x_position, the x-velocity at step i+1 is the negation
\* of the x-velocity at step i-1 (of strictly opposite sign when it is not
\* zero), and the magnitude of the body's velocity is the same at every
\* step.  The velocity at a step is the contents of velocities when the
\* step's state is recorded.
C3_ReflectionReversesVelocity ==
    (prog = "bounce" /\ args.time_step > 0) =>
        \A b \in 1..Len(given.positions) :
            /\ \A i \in 2..(Len(velocity_log) - 1) :
                  mem[positions_over_time[i]][b][1] >= args.wall_x_position
                     => velocity_log[i + 1][b][1]
                           = -velocity_log[i - 1][b][1]
            /\ \A i \in 1..Len(velocity_log) :
                  SumSq(velocity_log[i][b]) = SumSq(given.velocities[b])

\* C4: in two_balls_bounce.simulate_motion every recorded state has as
\* many bodies as initial_positions, and a step changes the velocities at
\* most in the x-component of the one body under the wall test, whose
\* position is at or beyond the wall: its y and z components and all other
\* bodies' velocities stay as they are.
C4_ReflectionTouchesOnlyX ==
    [][(prog = "bounce" /\ call' = call /\ velocities # 0) =>
          /\ \A k \in 1..Len(positions_over_time') :
                Len(mem'[positions_over_time'[k]]) = Len(given.positions)
          /\ Len(mem'[velocities']) = Len(given.velocities)
          /\ \A b \in 1..Len(given.velocities) :
                LET old == mem[velocities][b]
                    new == mem'[velocities'][b]
                IN  /\ new[2] = old[2]
                    /\ new[3] = old[3]
                    /\ new[1] \in {old[1], -old[1]}
                    /\ new[1] # old[1] =>
                          /\ pc = "for" /\ b = index + 1
                          /\ mem[positions][b][1] >= args.wall_x_position
      ]_vars

\* C4 witness: of two bodies the first has been reflected, its y-velocity
\* and the second body's velocity are what they were.
C4_Witness ==
    /\ prog = "bounce"
    /\ args.time_step > 0
    /\ velocities # 0
    /\ Len(given.velocities) = 2
    /\ given.velocities[1][1] # 0
    /\ given.velocities[1][2] # 0
    /\ given.velocities[2][1] # 0
    /\ mem[velocities][1][1] = -given.velocities[1][1]
    /\ mem[velocities][2] = given.velocities[2]
    /\ Len(positions_over_time) >= 3

\* C5 (as stated): with time_step <= 0 each simulator ends in an
\* InvalidInput error before any state is recorded.
C5_NonPositiveStepRejected ==
    args.time_step <= 0 =>
        /\ Len(positions_over_time) = 0
        /\ Len(x_positions) = 0
        /\ outcome # "returned"
        /\ pc = "done" => outcome = "InvalidInput"

InMotion == prog \in {"bounce", "cross"}

\* C6 (as stated): with time_step > 0 the loop of simulate_motion exits
\* because current_time comes to exceed stop_time: as long as the loop
\* condition holds, a pass leaves current_time larger than it found it.
\* (A state in which it does not is one the loop never leaves: the next
\* pass finds the same current_time and the same condition.)
C6_EveryPassAdvancesTime ==
    (/\ InMotion /\ Len(given.positions) >= 1
     /\ args.time_step > 0 /\ current_time <= args.stop_time)
        => FAdd(current_time, args.time_step) > current_time

\* The inputs of the amended C6: stop_time below 2^Precision time steps
\* (binary64: 2^53), so that adding time_step still changes current_time.
WithinPrecision ==
    /\ args.time_step > 0
    /\ args.stop_time < Pow2(mant_dig) * args.time_step

\* How a finished call left its loop: simulate after at most max_steps
\* passes, earlier only by the boundary stop; simulate_motion with
\* current_time beyond stop_time.
LoopExited ==
    IF prog = "station"
    THEN /\ iteration <= args.max_steps
         /\ Len(times) = iteration + 1
         /\ pc = "done"
         /\ iteration < args.max_steps =>
               \/ ~IsNum(Last(x_positions))
               \/ OnCircle(Last(x_positions), Last(y_positions),
                           args.inner_radius)
    ELSE pc = "done" /\ current_time > args.stop_time

\* C6 (amended): birthday_station.simulate returns after at most max_steps
\* passes, earlier only by the boundary stop; simulate_motion (bounce and
\* cross) returns, with current_time > stop_time, whenever time_step > 0
\* and stop_time < 2^Precision * time_step; so does a second call.
C6_RunsToCompletion ==
    (prog = "station" \/ WithinPrecision) => <>(call = 2 /\ LoopExited)

\* C6 witness: the second of two bounce calls of several passes has
\* returned because the time passed stop_time.
C6_Witness ==
    /\ prog = "bounce"
    /\ pc = "done" /\ call = 2
    /\ WithinPrecision
    /\ Len(result) >= 4
    /\ Len(given.positions) = 2

\* C7: a second call of a simulator with the arguments of the first (the
\* same array objects) returns a trajectory of the same length with the
\* same contents at every index.
C7_SameInputsSameTrajectory ==
    (call = 2 /\ pc = "done") => Returned = first_result

\* C7 witness: the second of two bounce calls has returned several states,
\* a reflection among them.
C7_Witness ==
    /\ prog = "bounce"
    /\ args.time_step > 0
    /\ call = 2 /\ pc = "done"
    /\ Len(result) >= 3
    /\ mem[velocities] # given.velocities
    /\ first_result # <<>>

\* C8: simulate_motion (bounce and cross) never changes the contents of
\* the caller's initial_positions and initial_velocities, and every call
\* starts its working arrays from those contents.
C8_ArgumentsUnchanged ==
    InMotion =>
        /\ mem[InitialPositionsRef] = given.positions
        /\ mem[InitialVelocitiesRef] = given.velocities
        /\ (pc = "while" /\ positions_over_time = <<>>) =>
              /\ mem[positions] = given.positions
              /\ mem[velocities] = given.velocities

\* C8 witness: in the second bounce call the working arrays have been
\* advanced in place and reflected.
C8_Witness ==
    /\ prog = "bounce"
    /\ args.time_step > 0
    /\ call = 2 /\ positions # 0
    /\ mem[positions] # given.positions
    /\ mem[velocities] # given.velocities

\* C9: within a call positions_over_time only grows, by one entry at a
\* time, and no step changes an entry already appended; an array that is
\* not the working positions or velocities is never written.
C9_HistoryIsAppendOnly ==
    [][(InMotion /\ call' = call) =>
          /\ Len(positions_over_time') \in
                {Len(positions_over_time), Len(positions_over_time) + 1}
          /\ \A k \in 1..Len(positions_over_time) :
                /\ positions_over_time'[k] = positions_over_time[k]
                /\ mem'[positions_over_time'[k]]
                      = mem[positions_over_time[k]]
          /\ \A r \in 1..Len(mem) :
                (r # positions /\ r # velocities) => mem'[r] = mem[r]
      ]_vars

\* C9 witness: a bounce run holds two entries, the first the initial
\* state, and the working array has moved on in place since the second.
C9_Witness ==
    /\ prog = "bounce"
    /\ args.time_step > 0
    /\ Len(positions_over_time) >= 2
    /\ mem[positions_over_time[1]] = given.positions
    /\ mem[positions_over_time[2]] # given.positions
    /\ mem[positions] # mem[Last(positions_over_time)]

\* C10 (as stated, for a positive time_step and at least one body): every
\* returned trajectory is non-empty and begins with the initial state:
\* time 0 and position (0, -inner_radius + release_height) for
\* birthday_station.simulate, the contents of initial_positions for
\* simulate_motion.
C10_FirstEntryIsInitialState ==
    (/\ pc = "done" /\ args.time_step > 0
     /\ InMotion => Len(given.positions) >= 1) =>
        IF prog = "station"
        THEN /\ Len(result.time) >= 1
             /\ result.time[1] = 0
             /\ result.x_inertial[1] = Num(0)
             /\ result.y_inertial[1] = InitialY(args)
        ELSE /\ Len(result) >= 1
             /\ mem[result[1]] = given.positions

\* Scenario A of the specification: the default station and release height
\* (main() of birthday_station), a ball released at rest.
ScenarioA ==
    /\ prog = "station"
    /\ args.inner_radius = 10 /\ args.release_height = 2
    /\ args.initial_velocity = <<0, 0>>
    /\ args.time_step > 0

\* Every position recorded so far is (0, -8) and the boundary stop has
\* not been taken.
RestsAtRelease ==
    /\ pc # "break"
    /\ \A i \in 1..Len(x_positions) :
          x_positions[i] = Num(0) /\ y_positions[i] = Num(-8)

\* C11 (as stated): in Scenario A the boundary stop is never triggered,
\* every recorded position is (0, -8), and the returned trajectory has
\* max_steps entries.
C11_ScenarioALengthIsMaxSteps ==
    (ScenarioA /\ args.max_steps >= 1) =>
        /\ RestsAtRelease
        /\ pc = "done" => Len(result.time) = args.max_steps

\* C11 (amended): in Scenario A the boundary stop is never triggered,
\* every recorded position is (0, -8), and the returned trajectory has
\* max_steps + 1 entries: the initial state and one entry per pass.
C11_ScenarioALengthIsMaxStepsPlusOne ==
    ScenarioA =>
        /\ RestsAtRelease
        /\ pc = "done" =>
              /\ Len(result.time) = args.max_steps + 1
              /\ Len(result.x_inertial) = args.max_steps + 1
              /\ Len(result.y_inertial) = args.max_steps + 1

\* C11 witness: Scenario A has returned after six passes.
C11_Witness ==
    /\ ScenarioA
    /\ pc = "done"
    /\ args.max_steps = 6
    /\ Len(result.time) = 7
    /\ Last(result.y_inertial) = Num(-8)

ScenarioB ==
    /\ prog = "bounce"
    /\ args = MainArgs
    /\ given = [positions |-> MainPositions, velocities |-> MainVelocities]

\* The velocities in force after the pass that recorded entry i: those
\* logged with entry i + 1, the working array's after the last entry.
VelocitiesAfter(i) ==
    IF i < Len(velocity_log) THEN velocity_log[i + 1] ELSE mem[velocities]

\* The passes (numbered by the entry they record) in which body b's
\* x-velocity was negated.
NegatedAt(b) ==
    {i \in 1..Len(velocity_log) :
        VelocitiesAfter(i)[b][1] # velocity_log[i][b][1]}

\* C12: in Scenario B each body's x-velocity is negated at most once while
\* the run goes on and exactly once by its end, body 1's in an earlier
\* pass than body 2's, and the run ends with x-velocities -25 and -18
\* (y and z velocities unchanged).
C12_ScenarioBReflectsOnceEach ==
    (ScenarioB /\ velocities # 0) =>
        /\ \A b \in 1..2 : Cardinality(NegatedAt(b)) <= 1
        /\ \A b \in 1..2 :
              mem[velocities][b][1] \in
                 {MainVelocities[b][1], -MainVelocities[b][1]}
        /\ pc = "done" =>
              /\ \A b \in 1..2 : Cardinality(NegatedAt(b)) = 1
              /\ \A i \in NegatedAt(1) : \A j \in NegatedAt(2) : i < j
              /\ mem[velocities] = << <<-25, 0, 0>>, <<-18, 0, 0>> >>

\* C12 witness: Scenario B has returned; body 1 was turned in the pass of
\* entry 41 (x = 0), body 2 in that of entry 46.
C12_Witness ==
    /\ ScenarioB
    /\ pc = "done"
    /\ Len(result) > 46
    /\ NegatedAt(1) = {41}
    /\ NegatedAt(2) = {46}

\* The pass about to run attempts the radial clamp at the origin: its
\* advance ends at radius 0 and inner_radius <= 0.
ClampAtOrigin ==
    /\ prog = "station" /\ pc = "loop"
    /\ iteration < args.max_steps
    /\ args.inner_radius <= 0
    /\ Hypot(Advance(current_x, args.initial_velocity[1], args.time_step),
             Advance(current_y, args.initial_velocity[2], args.time_step))
          = Num(0)

\* C13 (as stated, for a positive time_step): in birthday_station.simulate
\* the pass that attempts the radial clamp at the origin (post-advance
\* radius 0 with inner_radius <= 0) ends the run in DegenerateState and
\* records no position.
C13_OriginClampIsDegenerateState ==
    [][(ClampAtOrigin /\ args.time_step > 0) =>
          /\ outcome' = "DegenerateState"
          /\ x_positions' = x_positions
          /\ y_positions' = y_positions
      ]_vars

\* C14 (as stated, for a positive time_step and stop_time >= 0):
\* simulate_motion (bounce and cross) called with initial_positions of
\* zero rows records no state, returns no trajectory and ends in
\* InvalidInput.
C14_EmptyBodySetRejected ==
    (/\ InMotion /\ Len(given.positions) = 0
     /\ args.time_step > 0 /\ args.stop_time >= 0) =>
        /\ Len(positions_over_time) = 0
        /\ outcome # "returned"
        /\ pc = "done" => outcome = "InvalidInput"

\* C15 (as stated, for a positive time_step): in
\* two_balls_bounce.simulate_motion no body's x-velocity is negated before
\* the body has been advanced once: entry 1 is entry 0 advanced by
\* initial_velocities * time_step, whatever the initial position relative
\* to the wall.
C15_FirstAdvanceUsesInitialVelocity ==
    (prog = "bounce" /\ args.time_step > 0
        /\ Len(positions_over_time) >= 2) =>
        mem[positions_over_time[2]]
            = ArrayAdvance(given.positions, given.velocities,
                           args.time_step)

\* Entry k as the list holds it.
Entry(k) == mem[positions_over_time[k]]

\* C16: in two_balls_bounce.simulate_motion every entry after the first
\* is the entry before it advanced by the velocities in force, unclamped
\* and unmirrored, also where it lies at or beyond the wall; and the entry
\* following one with x >= wall_x_position is that position plus the
\* velocity with its x-component negated, times time_step.
C16_ReflectionLeavesPositionUncorrected ==
    (prog = "bounce" /\ args.time_step > 0) =>
        \A b \in 1..Len(given.positions) :
            \A k \in 1..(Len(positions_over_time) - 1) :
                /\ Entry(k + 1)[b]
                      = RowAdd(Entry(k)[b],
                               RowScale(velocity_log[k + 1][b],
                                        args.time_step))
                /\ Entry(k)[b][1] >= args.wall_x_position =>
                      /\ velocity_log[k + 1][b]
                            = [velocity_log[k][b] EXCEPT
                                  ![1] = -velocity_log[k][b][1]]
                      /\ Entry(k + 1)[b][1]
                            = FAdd(Entry(k)[b][1],
                                   FMul(-velocity_log[k][b][1],
                                        args.time_step))

\* C16 witness: a body that started left of the wall is recorded beyond
\* it, and the next entry has it moving back from there.
C16_Witness ==
    /\ prog = "bounce" /\ args.time_step > 0
    /\ Len(positions_over_time) >= 3
    /\ Len(given.positions) >= 1
    /\ given.positions[1][1] < args.wall_x_position
    /\ \E k \in 2..(Len(positions_over_time) - 1) :
          /\ Entry(k)[1][1] > args.wall_x_position
          /\ Entry(k + 1)[1][1] < Entry(k)[1][1]

\* initial_positions + i * initial_velocities * time_step, in exact
\* arithmetic.
StraightLine(i) ==
    [b \in 1..Len(given.positions) |->
        [c \in 1..3 |->
            given.positions[b][c]
               + i * given.velocities[b][c] * args.time_step]]

\* C17: in two_balls_cross.simulate_motion with time_step > 0, in the
\* format where the arithmetic is exact, the entry at index i (from 0) is
\* initial_positions + i * initial_velocities * time_step and has as many
\* rows as initial_positions; only indices with i * time_step <= stop_time
\* are recorded, and the returned list holds exactly those (the one with
\* i * time_step = stop_time included).
C17_CrossIsStraightLine ==
    (prog = "cross" /\ mant_dig = WidePrecision /\ args.time_step > 0) =>
        /\ \A k \in 1..Len(positions_over_time) :
              /\ Entry(k) = StraightLine(k - 1)
              /\ Len(Entry(k)) = Len(given.positions)
              /\ (k - 1) * args.time_step <= args.stop_time
        /\ pc = "done" =>
              \A i \in 0..(Len(result) + Abs(args.stop_time) + 1) :
                  (i * args.time_step <= args.stop_time) <=> (i < Len(result))

\* C17 witness: a cross run of two moving bodies has returned, its last
\* entry the state at time stop_time.
C17_Witness ==
    /\ prog = "cross" /\ mant_dig = WidePrecision
    /\ pc = "done"
    /\ Len(given.positions) = 2
    /\ given.velocities[1][1] # 0
    /\ Len(result) >= 3
    /\ (Len(result) - 1) * args.time_step = args.stop_time

\* The number of states of the trajectory handed to the figure builder.
TrajectoryLength ==
    IF prog = "station" THEN Len(result.time) ELSE Len(result)

\* C18: the figure builders make one frame per trajectory state, in
\* trajectory order, frame k (from 0) named str(k): while the loop runs
\* they have made frame_index frames, and the figure returned holds
\* TrajectoryLength frames.  In build_figure frame k shows the ball at
\* state k in both panels and trails of the states 0..k; in
\* build_animation_figure (bounce and cross) frame k has one sphere per
\* body, centred on the body's position in state k.
C18_OneFramePerState ==
    pc \in {"frames", "figure"} =>
        /\ Len(frames) = frame_index
        /\ frame_index <= TrajectoryLength
        /\ (pc = "figure" /\ outcome = "returned") =>
              /\ figure.frames = frames
              /\ Len(figure.frames) = TrajectoryLength
        /\ \A k \in 1..Len(frames) :
              /\ frames[k].name = ToString(k - 1)
              /\ IF prog = "station"
                 THEN /\ frames[k].data.ball
                            = <<result.x_inertial[k], result.y_inertial[k]>>
                      /\ frames[k].data.ball_rotating
                            = <<result.x_rotating[k], result.y_rotating[k]>>
                      /\ frames[k].data.trail
                            = [x |-> [i \in 1..k |-> result.x_inertial[i]],
                               y |-> [i \in 1..k |-> result.y_inertial[i]]]
                      /\ frames[k].data.trail_rotating
                            = [x |-> [i \in 1..k |-> result.x_rotating[i]],
                               y |-> [i \in 1..k |-> result.y_rotating[i]]]
                 ELSE /\ Len(frames[k].data) = Len(given.positions)
                      /\ \A b \in 1..Len(given.positions) :
                            frames[k].data[b].center = mem[result[k]][b]

\* C18 witness: build_figure has returned a figure of several frames for
\* a ball that moved; the last frame's trail holds every state.
C18_Witness ==
    /\ prog = "station"
    /\ pc = "figure" /\ outcome = "returned"
    /\ args.time_step > 0
    /\ Len(figure.frames) >= 4
    /\ Len(Last(figure.frames).data.trail.x) = Len(result.time)
    /\ Last(figure.frames).data.ball # figure.frames[1].data.ball

\* Body b starts left of the wall and moves towards it.
Approaching(b) ==
    /\ given.positions[b][1] < args.wall_x_position
    /\ given.velocities[b][1] > 0

UpdatesExact(b) ==
    \A k \in 1..(Len(positions_over_time) - 1) :
        Entry(k + 1)[b][1]
           = Entry(k)[b][1] + velocity_log[k + 1][b][1] * args.time_step

RadiusSquared(k) ==
    x_positions[k].val * x_positions[k].val
       + y_positions[k].val * y_positions[k].val

\* The initial position lies strictly inside the circle of inner_radius.
StartsInside ==
    /\ prog = "station"
    /\ args.inner_radius > 0
    /\ InitialY(args).val * InitialY(args).val
          < args.inner_radius * args.inner_radius

\* The five arrays of the dictionary returned have length n.
ArraysHaveLength(n) ==
    /\ Len(result.time) = n
    /\ Len(result.x_inertial) = n
    /\ Len(result.y_inertial) = n
    /\ Len(result.x_rotating) = n
    /\ Len(result.y_rotating) = n

\* C20 (as stated): in birthday_station.simulate, when the initial
\* position lies strictly inside the circle, every recorded position has
\* radial distance <= inner_radius and every entry other than the last
\* has radial distance strictly below inner_radius; the five returned
\* arrays have the same length, between 1 and max_steps + 1.
C20_RecordedPositionsWithinCircle ==
    StartsInside =>
        /\ \A k \in 1..Len(x_positions) :
              /\ IsNum(x_positions[k]) /\ IsNum(y_positions[k])
              /\ RadiusSquared(k) <= args.inner_radius * args.inner_radius
              /\ (k < Len(x_positions) \/ pc = "loop") =>
                    RadiusSquared(k) < args.inner_radius * args.inner_radius
        /\ pc = "done" =>
              /\ ArraysHaveLength(Len(result.time))
              /\ Len(result.time) \in 1..(args.max_steps + 1)

\* C20 (amended): the same, with the last entry, when the boundary stop
\* produced it, on the circle up to rounding: its floating-point norm is
\* within one step of the format of inner_radius.
C20_RecordedPositionsWithinRounding ==
    StartsInside =>
        /\ \A k \in 1..Len(x_positions) :
              /\ IsNum(x_positions[k]) /\ IsNum(y_positions[k])
              /\ (k < Len(x_positions) \/ pc = "loop") =>
                    RadiusSquared(k) < args.inner_radius * args.inner_radius
        /\ pc = "break" =>
              OnCircle(Last(x_positions), Last(y_positions),
                       args.inner_radius)
        /\ pc = "done" =>
              /\ ArraysHaveLength(Len(result.time))
              /\ Len(result.time) \in 1..(args.max_steps + 1)
              /\ Len(result.time) = iteration + 1

\* C20 witness: a ball released inside the circle was stopped at the
\* boundary after several passes and before max_steps; the run has
\* returned.
C20_Witness ==
    /\ StartsInside
    /\ args.time_step > 0
    /\ pc = "done"
    /\ Len(result.time) >= 3
    /\ Len(result.time) < args.max_steps + 1
    /\ OnCircle(Last(x_positions), Last(y_positions), args.inner_radius)

\* Entry k of the list of the cross call run beside.
CrossEntry(k) == cross_mem[cross_over_time[k]]

\* No body has been recorded at or beyond the wall by the bounce call.
NoRecordedCrossing ==
    \A k \in 1..Len(positions_over_time) :
        \A b \in 1..Len(Entry(k)) :
            Entry(k)[b][1] < args.wall_x_position

\* C21: two_balls_bounce.simulate_motion and
\* two_balls_cross.simulate_motion run side by side on the same
\* arguments: as long as the bounce call has recorded no body with
\* x >= wall_x_position, the two lists agree at every index both hold, and
\* when both have returned they have the same length.
C21_BounceIsCrossLeftOfWall ==
    (cross_pc # "idle" /\ NoRecordedCrossing) =>
        /\ \A k \in 1..Len(positions_over_time) :
              k <= Len(cross_over_time) => Entry(k) = CrossEntry(k)
        /\ (pc = "done" /\ cross_pc = "done") =>
              Len(result) = Len(cross_over_time)

\* C21 witness: both calls have returned several states of two bodies
\* that moved and stayed left of the wall.
C21_Witness ==
    /\ pc = "done" /\ cross_pc = "done"
    /\ args.time_step > 0
    /\ NoRecordedCrossing
    /\ Len(given.positions) = 2
    /\ Len(result) >= 3
    /\ Len(cross_over_time) >= 3
    /\ CrossEntry(3) # given.positions
    /\ given.velocities[1][1] # 0

\* The exact separation of the two points of the call, coordinate k.
Separation(k) == args.position_end[k] - args.position_start[k]

SumSquares == Separation(1) * Separation(1) + Separation(2) * Separation(2)
              + Separation(3) * Separation(3)

\* The shaft ends head_fraction of the arrow short of position_end:
\* at position_end - head_fraction * (position_end - position_start).
ShaftEndsAtHeadPoint ==
    /\ \A k \in 1..3 :
         One * shaft_end_position[k] =
             One * args.position_end[k] - args.head_fraction * Separation(k)
    /\ result[1] = Shaft(args.position_start, shaft_end_position)

\* The cone sits at the end of the shaft and its vector added to its
\* anchor is position_end.
ConeReachesEnd ==
    /\ result[2].x = <<shaft_end_position[1]>>
    /\ result[2].y = <<shaft_end_position[2]>>
    /\ result[2].z = <<shaft_end_position[3]>>
    /\ result[2].x[1] + result[2].u[1] = args.position_end[1]
    /\ result[2].y[1] + result[2].v[1] = args.position_end[2]
    /\ result[2].z[1] + result[2].w[1] = args.position_end[3]

\* C22 as stated: arrow_3d raises ValueError and builds no trace when the
\* two points are equal; for every pair of distinct points it returns a
\* shaft from position_start to the point head_fraction of the length
\* short of position_end and a cone anchored there whose vector reaches
\* exactly position_end.
C22_DistinctPointsGetExactArrow ==
    (prog = "arrow" /\ pc = "done") =>
        IF args.position_start = args.position_end
        THEN outcome = "ValueError" /\ result = <<>>
        ELSE outcome = "returned" /\ ShaftEndsAtHeadPoint /\ ConeReachesEnd

\* No operation of the call rounds: the format is wide, the length is the
\* exact root of the sum of squares, and the products by head_fraction
\* are whole numbers of steps.
ArrowExact ==
    /\ mant_dig = WidePrecision
    /\ vector_length * vector_length = SumSquares
    /\ (args.head_fraction * vector_length) % One = 0
    /\ \A k \in 1..3 : (args.head_fraction * Separation(k)) % One = 0

\* C22: arrow_3d raises ValueError, with no trace built, exactly when the
\* computed length is zero: always for equal points, and for distinct
\* points only when the square of every coordinate difference rounds to
\* zero.  Otherwise it returns a shaft that starts at position_start and a
\* cone anchored at the end of the shaft whose vector is the rounded
\* difference to position_end; when no operation rounds, the shaft ends
\* head_fraction of the length short of position_end and the cone's vector
\* reaches exactly position_end.
C22_ArrowUpToRounding ==
    (prog = "arrow" /\ pc = "done") =>
        /\ args.position_start = args.position_end => outcome = "ValueError"
        /\ outcome = "ValueError" <=> vector_length = 0
        /\ outcome = "ValueError" =>
              /\ result = <<>>
              /\ \A k \in 1..3 : 2 * Separation(k) * Separation(k) <= One
        /\ outcome # "ValueError" =>
              /\ outcome = "returned"
              /\ result =
                   << Shaft(args.position_start, shaft_end_position),
                      Cone(shaft_end_position, args.position_end) >>
              /\ ArrowExact => ShaftEndsAtHeadPoint /\ ConeReachesEnd

\* C22 witness: an arrow along two axes returned with a proper head, no
\* operation having rounded.
C22_Witness ==
    /\ prog = "arrow" /\ pc = "done" /\ outcome = "returned"
    /\ ArrowExact
    /\ args.head_fraction > 0 /\ args.head_fraction < One
    /\ Separation(1) # 0 /\ Separation(2) # 0
    /\ shaft_end_position # args.position_end
    /\ shaft_end_position # args.position_start

====
